---- MODULE Spec2Model ----
(***************************************************************************)
(* qmeventd: the daemon that accepts control connections of QEMU processes *)
(* and of vzdump, watches for SHUTDOWN events, terminates a VM (quit, then *)
(* SIGKILL after kill_timeout) and runs `qm cleanup` when a VM connection  *)
(* ends.  Modelled from src/qmeventd/qmeventd.c and                        *)
(* src/src/qmeventd/qmeventd.h.                                            *)
(*                                                                         *)
(* The C functions are operators over a "world" record W holding the       *)
(* daemon's mutable state.  A function whose outcome depends on the        *)
(* environment (write(2), pidfd_open(2), fork(2)) or on undefined          *)
(* behaviour returns the SET of worlds it can leave; an action of the      *)
(* event loop picks one of them.                                           *)
(***************************************************************************)
EXTENDS Integers, Sequences, FiniteSets, TLC

\* ------------------------------------------------------------------ bounds
MaxTime    == 2        \* last value of the clock time(NULL)
MaxTimeout == 2        \* largest kill timeout given with -t
MaxPending == 2        \* most entries forced_cleanups holds
MaxBatch   == 2        \* most messages one read(2) delivers
MaxClients == 3        \* most connections accepted over a run
BufSize    == 6        \* sizeof(client->buf), scaled down from 4096
MaxMsgs    == 3        \* most messages a peer writes to the byte stream
MaxSep     == 2        \* most whitespace bytes between two messages ("\r\n")
MaxBad     == 1        \* most oversized or malformed messages a peer writes
MaxArgLen  == 3        \* most characters of the argument of -t
IntWidth   == 4        \* bits of int, scaled down from 32
ULongWidth == 8        \* bits of unsigned long, scaled down from 64

Clients == 1 .. MaxClients

\* Process ids of the peers and the VMID get_vmid_from_pid finds in the
\* qemu.slice entry of /proc/<pid>/cgroup: two processes of VM 1, one of VM 2,
\* and one outside qemu.slice (0: no VMID found).
PidVmid == <<1, 1, 2, 0>>
Pids    == DOMAIN PidVmid

\* sizeof(client->qemu.vmid), sizeof(client->vzdump.vmid)
VmidSize == 16

\* printf's "%lu"
Digits == <<"0", "1", "2", "3", "4", "5", "6", "7", "8", "9">>
RECURSIVE DecStr(_)
DecStr(n) == IF n < 10 THEN Digits[n + 1] ELSE DecStr(n \div 10) \o Digits[(n % 10) + 1]

\* snprintf(dst, size, ...) of the formatted string s: what dst holds, and the
\* return value (the length s has untruncated).
snprintf_dst(size, s) == IF Len(s) < size THEN s ELSE SubSeq(s, 1, size - 1)
snprintf_res(s) == Len(s)

\* The keys vm_clients can hold: the VMIDs of the processes, as strings.
VmidKeys == {DecStr(PidVmid[p]) : p \in {q \in Pids : PidVmid[q] # 0}}

\* The "vmid" member of a vzdump handshake as a JSON value: absent, null, a
\* string, or a number (s: the text json_object_get_string gives for it).
JsonVmids == {[t |-> "absent"], [t |-> "null"],
              [t |-> "string", s |-> "1"], [t |-> "string", s |-> "2"],
              [t |-> "string", s |-> "1000000000000000"],
              [t |-> "int", s |-> "1"]}

\* json_object_get_string gives NULL for JSON null, the content of a string,
\* and the JSON text of any other value.
json_string_is_null(v) == v.t = "null"
json_object_get_string(v) == v.s

\* The decoded messages by the key the dispatch finds: an event has a name
\* that is SHUTDOWN, another string, or JSON null; "unknown" is an object
\* with none of the keys, "scalar" a top-level value that is no object.
Messages ==
       {[k |-> "QMP"]}
  \cup {[k |-> "event", name |-> "SHUTDOWN", guest |-> g] : g \in {"absent", "true", "false"}}
  \cup {[k |-> "event", name |-> "OTHER", guest |-> "absent"]}
  \cup {[k |-> "event", name |-> "null", guest |-> "absent"]}
  \cup {[k |-> "return", status |-> s] : s \in {"none", "running", "paused", "shutdown"}}
  \cup {[k |-> "error"]}
  \cup {[k |-> "vzdump", vmid |-> v] : v \in JsonVmids}
  \cup {[k |-> "unknown"], [k |-> "scalar"]}

VARIABLES
  env,              \* what the peers and the kernel may do in this run (never changes)
  client,           \* struct Client of every connection accepted so far
  vm_clients,       \* GHashTable vm_clients: VMID -> client (0: no entry)
  forced_cleanups,  \* GSList forced_cleanups, head first
  needs_cleanup,    \* static int needs_cleanup
  kill_timeout,     \* static int kill_timeout
  now,              \* time(NULL)
  running,          \* FALSE once the allocator has aborted the daemon
  obs,              \* per connection: what the daemon did to it (observation only)
  decoder,          \* one connection's bytes: buf, and the stream around it
  opts              \* main's option parsing: its phase, the argument of -t, the exit status

vars == <<env, client, vm_clients, forced_cleanups, needs_cleanup, kill_timeout, now,
          running, obs, decoder, opts>>

\* ------------------------------------------------------------ struct Client
\* alloc: "none" (not accepted yet), "live", "closed" (cleanup_client has closed
\* the fd and not yet freed the struct), "freed".
NoClient == [alloc |-> "none", pid |-> 0, pidfd |-> 0, timeout |-> 0,
             type |-> "CLIENT_NONE", state |-> "STATE_HANDSHAKE",
             qemu_vmid |-> "", graceful |-> 0, guest |-> 0,
             term_check_queued |-> FALSE, backup |-> FALSE, vzdump_vmid |-> ""]

\* What the model records about a connection, never read by the daemon:
\*   launches   `qm cleanup` children forked for it (counted to 2)
\*   args       the arguments "vmid graceful guest" of the last launch
\*   graceful_arg, guest_arg   the last two of them as numbers (-1: no launch)
\*   shutdown   a SHUTDOWN event of it was dispatched before its teardown
\*   last_guest the data.guest member of the last SHUTDOWN event that
\*              handle_qmp_event recorded ("none": it recorded no event)
\*   qemu_teardowns   calls of cleanup_client on it while its type was
\*              CLIENT_QEMU, other_teardowns the other calls (each counted to 2)
\*   inflight   query-status commands written since the last return or error
\*              of it was handled (counted to 2)
\*   escalations  terminate_client calls that recorded a pending kill (to 2)
\*   esc_start  time of the last of them
\*   sigkills   forced kills sent by the sweep (counted to 2)
\*   early      a forced kill was sent before esc_start + kill_timeout
\*   late       its end-of-file was read at or after the deadline of its kill
\*   unresolved a banner of it was handled for which get_vmid_from_pid gave 0
\*   write_failed   the last command whose write to it failed ("none": no write)
\*   failed     a write, pidfd_open (ESRCH) or fork for it failed while script holds
\*   script     its input so far is a prefix of Scenario A
\*   scn        how many steps of Scenario A its input has followed
\*   out        the daemon's outputs to it while script holds
NoObs == [launches |-> 0, args |-> "", graceful_arg |-> -1, guest_arg |-> -1,
          shutdown |-> FALSE, last_guest |-> "none", write_failed |-> "none",
          unresolved |-> FALSE,
          qemu_teardowns |-> 0, other_teardowns |-> 0,
          inflight |-> 0, escalations |-> 0, esc_start |-> 0,
          sigkills |-> 0, early |-> FALSE, late |-> FALSE, failed |-> FALSE,
          script |-> FALSE, scn |-> 0, out |-> <<>>]

Inc2(n) == IF n < 2 THEN n + 1 ELSE 2

World == [env |-> env, client |-> client, vm_clients |-> vm_clients,
          forced_cleanups |-> forced_cleanups, needs_cleanup |-> needs_cleanup,
          running |-> running, obs |-> obs]

\* An output of the daemon towards connection c, kept while c follows Scenario A.
Output(W, c, o) ==
  IF W.obs[c].script THEN [W EXCEPT !.obs[c].out = Append(@, o)] ELSE W

\* A system call made for connection c has failed.
Failed(W, c) ==
  IF W.obs[c].script THEN [W EXCEPT !.obs[c].failed = TRUE] ELSE W

\* The write of command cmd to connection c has failed.
WriteFailed(W, c, cmd) ==
  [Failed(W, c) EXCEPT !.obs[c].write_failed = cmd]

\* g_slist_remove: the list without the first element equal to c.
RECURSIVE g_slist_remove(_, _)
g_slist_remove(list, c) ==
  IF list = <<>> THEN <<>>
  ELSE IF Head(list) = c THEN Tail(list)
  ELSE <<Head(list)>> \o g_slist_remove(Tail(list), c)

\* g_hash_table_insert: the value of an existing key is replaced.
g_hash_table_insert(table, key, value) == [table EXCEPT ![key] = value]

\* g_hash_table_lookup: NULL (0) for a key the table does not hold.
g_hash_table_lookup(table, key) == IF key \in DOMAIN table THEN table[key] ELSE 0

\* g_hash_table_remove: an absent key is tolerated.
g_hash_table_remove(table, key) ==
  IF key \in DOMAIN table THEN [table EXCEPT ![key] = 0] ELSE table

get_vmid_from_pid(pid) == PidVmid[pid]

\* fopen of /proc/<pid>/cgroup in get_vmid_from_pid: "ok", or an error (the
\* process is gone), after which get_vmid_from_pid returns 0.
fopen_cgroup(W) == W.env.cgroup

RECURSIVE cleanup_client(_, _)
RECURSIVE terminate_check(_, _)
RECURSIVE send_qmp_cmd(_, _, _)

\* must_write on the connection's fd: it can succeed only while the fd is open.
\* The set of outcomes: TRUE (all bytes written), FALSE.
must_write(W, c) == IF W.client[c].alloc = "live" THEN W.env.write ELSE {FALSE}

\* A command written to c; a query-status is in flight from then on.
Written(W, c, cmd) ==
  LET W1 == Output(W, c, cmd)
  IN  IF cmd = "query-status"
      THEN [W1 EXCEPT !.obs[c].inflight = Inc2(@)]
      ELSE W1

\* A send_qmp_cmd that leaves the connection open when the write fails.
send_qmp_cmd_keep(W, c, cmd) ==
  { IF ok THEN Written(W, c, cmd) ELSE WriteFailed(W, c, cmd)
    : ok \in must_write(W, c) }

send_qmp_cmd(W, c, cmd) ==
  UNION { IF ok THEN {Written(W, c, cmd)}
                ELSE cleanup_client(WriteFailed(W, c, cmd), c)
          : ok \in must_write(W, c) }

\* A termination check that does not look at the state.
terminate_check_always(W, c) ==
  send_qmp_cmd([W EXCEPT !.client[c].term_check_queued = FALSE,
                         !.client[c].state = "STATE_EXPECT_STATUS_RESP"],
               c, "query-status")

terminate_check(W, c) ==
  IF W.client[c].state # "STATE_IDLE"
  THEN {[W EXCEPT !.client[c].term_check_queued = TRUE]}
  ELSE send_qmp_cmd([W EXCEPT !.client[c].term_check_queued = FALSE,
                              !.client[c].state = "STATE_EXPECT_STATUS_RESP"],
                    c, "query-status")

\* fork() gives the child that execs `qm cleanup vmid graceful guest`, or fails.
cleanup_qemu_client(W, c) ==
  LET cl == W.client[c]
      W1 == [W EXCEPT !.vm_clients = g_hash_table_remove(@, cl.qemu_vmid),
                      !.obs[c].qemu_teardowns = Inc2(@)]
      args == cl.qemu_vmid \o " " \o (IF cl.graceful # 0 THEN "1" ELSE "0")
                            \o " " \o (IF cl.guest # 0 THEN "1" ELSE "0")
      launched == Output([W1 EXCEPT !.obs[c].launches = Inc2(@), !.obs[c].args = args,
                                    !.obs[c].graceful_arg = IF cl.graceful # 0 THEN 1 ELSE 0,
                                    !.obs[c].guest_arg = IF cl.guest # 0 THEN 1 ELSE 0],
                         c, "qm cleanup " \o args)
  IN  {IF ok THEN launched ELSE Failed(W1, c) : ok \in W.env.fork}

\* free(client).  Freeing a struct that is already freed is undefined: the
\* allocator aborts the daemon, or the call goes unnoticed.
free(W, c) ==
  IF W.client[c].alloc = "freed"
  THEN {W, [W EXCEPT !.running = FALSE]}
  ELSE {[W EXCEPT !.client[c].alloc = "freed"]}

cleanup_client(W, c) ==
  LET Wc == [W EXCEPT !.client[c].alloc = IF @ = "live" THEN "closed" ELSE @]
      W0 == IF W.client[c].type = "CLIENT_QEMU"
            THEN Wc
            ELSE [Wc EXCEPT !.obs[c].other_teardowns = Inc2(@)]
      typed ==
        CASE W0.client[c].type = "CLIENT_QEMU" -> cleanup_qemu_client(W0, c)
          [] W0.client[c].type = "CLIENT_VZDUMP" ->
               LET vmc == g_hash_table_lookup(W0.vm_clients, W0.client[c].vzdump_vmid)
               IN  IF vmc # 0
                   THEN terminate_check([W0 EXCEPT !.client[vmc].backup = FALSE], vmc)
                   ELSE {W0}
          [] OTHER -> {W0}
  IN  UNION { free([W1 EXCEPT !.forced_cleanups = g_slist_remove(@, c)], c) : W1 \in typed }

\* ------------------------------------------------------------ qmp handling
\* The VMID could not be resolved for a banner of connection c.
Unresolved(W, c) ==
  IF W.client[c].alloc = "live" THEN [W EXCEPT !.obs[c].unresolved = TRUE] ELSE W

handle_qmp_handshake(W, c) ==
  UNION {
    LET vmid == IF r = "ok" THEN get_vmid_from_pid(W.client[c].pid) ELSE 0
        str  == DecStr(vmid)
        res  == snprintf_res(str)
        W1   == [W EXCEPT !.client[c].qemu_vmid = snprintf_dst(VmidSize, str)]
    IN  IF vmid = 0 \/ res < 0 \/ res >= VmidSize
        THEN cleanup_client(Unresolved(W1, c), c)
        ELSE send_qmp_cmd([W1 EXCEPT !.client[c].type = "CLIENT_QEMU",
                                     !.vm_clients =
                                         g_hash_table_insert(@, W1.client[c].qemu_vmid, c)],
                          c, "qmp_capabilities")
    : r \in fopen_cgroup(W) }

\* A handler of events that does not record the guest member.
handle_qmp_event_noguest(W, c, ev) ==
  IF W.client[c].state = "STATE_TERMINATING" THEN {W}
  ELSE IF ev.name = "SHUTDOWN"
  THEN terminate_check([W EXCEPT !.client[c].graceful = 1], c)
  ELSE {W}

\* json_object_get_boolean of the event's data.guest member, when there is one.
\* For {"event": null} json_object_get_string gives NULL, and strcmp reads
\* through it, which is undefined: the daemon is killed by SIGSEGV, or the
\* comparison goes unnoticed and the event is ignored.
handle_qmp_event(W, c, ev) ==
  IF W.client[c].state = "STATE_TERMINATING" THEN {W}
  ELSE IF ev.name = "null" THEN {W, [W EXCEPT !.running = FALSE]}
  ELSE IF ev.name = "SHUTDOWN"
  THEN LET W1 == [W EXCEPT !.client[c].graceful = 1]
           W2 == IF ev.guest = "absent" THEN W1
                 ELSE [W1 EXCEPT !.client[c].guest = IF ev.guest = "true" THEN 1 ELSE 0]
       IN  terminate_check(W2, c)
  ELSE {W}

\* pidfd_open(client->pid, 0): a descriptor ("fd"), ESRCH (no such process), or
\* another error (ENOSYS on a kernel without pidfds), after which the PID is used.
pidfd_open(W) == W.env.pidfd

\* A terminate_client that records the pending kill only after a quit that
\* was written.
terminate_client_quit_only(W, c) ==
  LET W1 == [W EXCEPT !.client[c].state = "STATE_TERMINATING"]
      record(Wq, pidfd) ==
        [Wq EXCEPT !.client[c].pidfd = pidfd,
                   !.client[c].timeout = now + kill_timeout,
                   !.forced_cleanups = <<c>> \o @,
                   !.needs_cleanup = 1,
                   !.obs[c].escalations = Inc2(@),
                   !.obs[c].esc_start = now]
      quit(pidfd) ==
        { IF ok THEN record(Written(W1, c, "quit"), pidfd)
                ELSE Output(WriteFailed(W1, c, "quit"), c, "SIGTERM")
            : ok \in must_write(W1, c) }
  IN  UNION { CASE r = "ESRCH" -> {Failed(W1, c)}
                [] r = "fd"    -> quit(1)
                [] OTHER       -> quit(-1)
              : r \in pidfd_open(W) }

terminate_client(W, c) ==
  LET W1 == [W EXCEPT !.client[c].state = "STATE_TERMINATING"]
      record(Wq, pidfd) ==
        [Wq EXCEPT !.client[c].pidfd = pidfd,
                   !.client[c].timeout = now + kill_timeout,
                   !.forced_cleanups = <<c>> \o @,
                   !.needs_cleanup = 1,
                   !.obs[c].escalations = Inc2(@),
                   !.obs[c].esc_start = now]
      quit(pidfd) ==
        { record(IF ok THEN Written(W1, c, "quit")
                       ELSE Output(WriteFailed(W1, c, "quit"), c, "SIGTERM"), pidfd)
            : ok \in must_write(W1, c) }
  IN  UNION { CASE r = "ESRCH" -> {Failed(W1, c)}
                [] r = "fd"    -> quit(1)
                [] OTHER       -> quit(-1)
              : r \in pidfd_open(W) }

\* A handler of returns that does not look at the backup flag.
handle_qmp_return_nobackup(W, c, status, error) ==
  LET W0 == [W EXCEPT !.obs[c].inflight = 0]
      active == status \in {"running", "paused"}
      handled ==
        IF error THEN {[W0 EXCEPT !.client[c].state = "STATE_IDLE"]}
        ELSE CASE W0.client[c].state = "STATE_EXPECT_STATUS_RESP" ->
                    LET W1 == [W0 EXCEPT !.client[c].state = "STATE_IDLE"]
                    IN  IF active THEN {W1} ELSE terminate_client(W1, c)
               [] W0.client[c].state = "STATE_HANDSHAKE" ->
                    {[W0 EXCEPT !.client[c].state = "STATE_IDLE"]}
               [] OTHER -> {W0}
  IN  UNION { IF W1.client[c].term_check_queued THEN terminate_check(W1, c) ELSE {W1}
              : W1 \in handled }

\* A handler of returns that does not run a queued termination check.
handle_qmp_return_norecheck(W, c, status, error) ==
  LET W0 == [W EXCEPT !.obs[c].inflight = 0]
      active == status \in {"running", "paused"}
  IN  IF error THEN {[W0 EXCEPT !.client[c].state = "STATE_IDLE"]}
      ELSE CASE W0.client[c].state = "STATE_EXPECT_STATUS_RESP" ->
                  LET W1 == [W0 EXCEPT !.client[c].state = "STATE_IDLE"]
                  IN  IF active THEN {W1}
                      ELSE IF ~W1.client[c].backup THEN terminate_client(W1, c)
                      ELSE {W1}
             [] W0.client[c].state = "STATE_HANDSHAKE" ->
                  {[W0 EXCEPT !.client[c].state = "STATE_IDLE"]}
             [] OTHER -> {W0}

\* A handler of returns that takes an error return for a success return
\* without a status.
handle_qmp_return_error_as_status(W, c, status, error) ==
  LET W0 == [W EXCEPT !.obs[c].inflight = 0]
      active == ~error /\ status \in {"running", "paused"}
      handled ==
        CASE W0.client[c].state = "STATE_EXPECT_STATUS_RESP" ->
                LET W1 == [W0 EXCEPT !.client[c].state = "STATE_IDLE"]
                IN  IF active THEN {W1}
                    ELSE IF ~W1.client[c].backup THEN terminate_client(W1, c)
                    ELSE {W1}
          [] W0.client[c].state = "STATE_HANDSHAKE" ->
                {[W0 EXCEPT !.client[c].state = "STATE_IDLE"]}
          [] OTHER -> {W0}
  IN  UNION { IF W1.client[c].term_check_queued THEN terminate_check(W1, c) ELSE {W1}
              : W1 \in handled }

\* data: the "status" member of the return object ("none": it has none)
handle_qmp_return(W, c, status, error) ==
  LET W0 == [W EXCEPT !.obs[c].inflight = 0]
      active == status \in {"running", "paused"}
      handled ==
        IF error THEN {[W0 EXCEPT !.client[c].state = "STATE_IDLE"]}
        ELSE CASE W0.client[c].state = "STATE_EXPECT_STATUS_RESP" ->
                    LET W1 == [W0 EXCEPT !.client[c].state = "STATE_IDLE"]
                    IN  IF active THEN {W1}
                        ELSE IF ~W1.client[c].backup THEN terminate_client(W1, c)
                        ELSE {W1}
               [] W0.client[c].state = "STATE_HANDSHAKE" ->
                    {[W0 EXCEPT !.client[c].state = "STATE_IDLE"]}
               [] OTHER -> {W0}
  IN  UNION { IF W1.client[c].term_check_queued THEN terminate_check(W1, c) ELSE {W1}
              : W1 \in handled }

handle_vzdump_handshake(W, c, data) ==
  LET W0 == [W EXCEPT !.client[c].state = "STATE_IDLE"]
      has_vmid == data.t # "absent"
  IN  IF ~has_vmid THEN {W0}
      ELSE IF json_string_is_null(data) THEN {W0}
      ELSE LET vmid_str == json_object_get_string(data)
               res == snprintf_res(vmid_str)
               W1  == [W0 EXCEPT !.client[c].vzdump_vmid = snprintf_dst(VmidSize, vmid_str)]
               vmc == g_hash_table_lookup(W1.vm_clients, W1.client[c].vzdump_vmid)
           IN  IF res < 0 \/ res >= VmidSize THEN {W1}
               ELSE IF vmc # 0
               THEN {[W1 EXCEPT !.client[vmc].backup = TRUE,
                                !.client[c].type = "CLIENT_VZDUMP"]}
               ELSE {W1}

\* ------------------------------------------------------- client management
add_new_client(W, c, pid) ==
  [W EXCEPT !.client[c] = [NoClient EXCEPT !.alloc = "live", !.pid = pid]]

\* Scenario A of the specification, as the input of one connection.
ScenarioA == << [k |-> "QMP"],
                [k |-> "return", status |-> "none"],
                [k |-> "event", name |-> "SHUTDOWN", guest |-> "true"],
                [k |-> "return", status |-> "shutdown"],
                [k |-> "EOF"] >>

\* A SHUTDOWN event reaches the dispatch for connection c, not yet torn down.
ShutdownSeen(W, c, m) ==
  IF m.k = "event" /\ m.name = "SHUTDOWN" /\ W.client[c].alloc = "live"
  THEN [W EXCEPT !.obs[c].shutdown = TRUE,
                 !.obs[c].last_guest =
                    IF W.client[c].state = "STATE_TERMINATING" THEN @ ELSE m.guest]
  ELSE W

\* Connection c has sent input m.
Received(W, c, m) ==
  LET o  == W.obs[c]
      W0 == ShutdownSeen(W, c, m)
  IN  IF o.script /\ o.scn < Len(ScenarioA) /\ ScenarioA[o.scn + 1] = m
      THEN [W0 EXCEPT !.obs[c].scn = @ + 1,
                      !.obs[c].late = /\ m.k = "EOF"
                                      /\ o.escalations > 0
                                      /\ now >= o.esc_start + kill_timeout]
      ELSE [W0 EXCEPT !.obs[c].script = FALSE, !.obs[c].out = <<>>,
                      !.obs[c].failed = FALSE]

\* The dispatch on the keys of one decoded top-level object.
dispatch(W, c, m) ==
  CASE m.k = "QMP"    -> handle_qmp_handshake(W, c)
    [] m.k = "event"  -> handle_qmp_event(W, c, m)
    [] m.k = "return" -> handle_qmp_return(W, c, m.status, FALSE)
    [] m.k = "error"  -> handle_qmp_return(W, c, "none", TRUE)
    [] m.k = "vzdump" -> handle_vzdump_handshake(W, c, m.vmid)
    [] OTHER          -> {W}

\* The decode loop over the messages one read delivered: a message of msgs,
\* then up to n - 1 of W.env.more.  A handler may have freed the client; the
\* loop condition then reads client->buflen of freed memory, which is
\* undefined: the loop ends, or goes on to dispatch the buffered messages on
\* the freed struct.  (With the client alive, the next iteration of the loop
\* does what the next call of handle_client would do, so the model lets a
\* read deliver a further message only behind one whose handler freed it.)
RECURSIVE decode_loop(_, _, _, _)
decode_loop(W, c, msgs, n) ==
  UNION { UNION { IF W1.client[c].alloc = "live" \/ n = 1 \/ ~W1.running
                  THEN {W1}
                  ELSE {W1} \cup decode_loop(W1, c, W.env.more, n - 1)
                  : W1 \in dispatch(Received(W, c, m), c, m) }
          : m \in msgs }

\* A handle_client for which every failed read is fatal.
handle_client_strict(W, c) ==
  UNION { CASE r = "EAGAIN" -> cleanup_client(Received(W, c, [k |-> "error-read"]), c)
            [] r = "error"  -> cleanup_client(Received(W, c, [k |-> "error-read"]), c)
            [] r = "EOF"    -> cleanup_client(Received(W, c, [k |-> "EOF"]), c)
            [] OTHER        -> decode_loop(W, c, W.env.msgs, W.env.batch)
          : r \in W.env.reads }

\* read(2) fails with EAGAIN or another error, returns 0 (EOF), or data.
handle_client(W, c) ==
  UNION { CASE r = "EAGAIN" -> {W}
            [] r = "error"  -> cleanup_client(Received(W, c, [k |-> "error-read"]), c)
            [] r = "EOF"    -> cleanup_client(Received(W, c, [k |-> "EOF"]), c)
            [] OTHER        -> decode_loop(W, c, W.env.msgs, W.env.batch)
          : r \in W.env.reads }

\* ------------------------------------------------------------------ sweep
\* A guard that never lets a deadline pass.
never_due(timeout, cur_time) == timeout # 0

\* The guard of sigkill: the entry is left for a later sweep.
not_due(timeout, cur_time) == timeout # 0 /\ timeout > cur_time

\* The forced kill of an entry that is due: SIGKILL through the pidfd or the pid.
kill(W, c) ==
  Output([W EXCEPT !.client[c].pidfd = IF @ > 0 THEN -1 ELSE @,
                   !.client[c].timeout = 0,
                   !.forced_cleanups = g_slist_remove(@, c),
                   !.obs[c].sigkills = Inc2(@),
                   !.obs[c].early = @ \/ now < W.obs[c].esc_start + kill_timeout],
         c, "SIGKILL")

\* An entry can point to a freed struct (the list held it twice, or
\* terminate_client ran on freed memory); data->timeout is then read from
\* freed memory, which is undefined: the entry is skipped or killed.
sigkill(W, c, cur_time) ==
  IF W.client[c].alloc = "freed" THEN {W, kill(W, c)}
  ELSE IF not_due(W.client[c].timeout, cur_time) THEN {W}
  ELSE {kill(W, c)}

\* g_slist_foreach(list, sigkill, &cur_time): every element of the list as it
\* is when the call starts, head first.
RECURSIVE g_slist_foreach(_, _, _)
g_slist_foreach(W, list, cur_time) ==
  IF list = <<>> THEN {W}
  ELSE UNION { g_slist_foreach(W1, Tail(list), cur_time)
               : W1 \in sigkill(W, Head(list), cur_time) }

\* A sweep that sets needs_cleanup from the list as it was before the sweep.
handle_forced_cleanup_stale(W) ==
  LET swept == IF Len(W.forced_cleanups) > 0
               THEN g_slist_foreach(W, W.forced_cleanups, now)
               ELSE {W}
  IN  IF ~W.running THEN {W}
      ELSE {[W1 EXCEPT !.needs_cleanup = IF Len(W.forced_cleanups) > 0 THEN 1 ELSE 0]
            : W1 \in swept}

handle_forced_cleanup(W) ==
  LET swept == IF Len(W.forced_cleanups) > 0
               THEN g_slist_foreach(W, W.forced_cleanups, now)
               ELSE {W}
  IN  IF ~W.running THEN {W}
      ELSE {[W1 EXCEPT !.needs_cleanup = IF Len(W1.forced_cleanups) > 0 THEN 1 ELSE 0]
            : W1 \in swept}

\* ------------------------------------------------------------ the bytes
\* client->buf at the level of bytes.  A byte is "{", "}", a whitespace " ", or
\* a byte of a message's content.
\*   buf   client->buf[0 .. buflen - 1]
\*   wire  the bytes the peer has written and read(2) has not yet returned
\*   sent  the messages the peer has written, got the messages dispatched
\*   lead  for each message written, the whitespace bytes written before it
\*   bad   the oversized or malformed messages the peer has written (not in sent)
NoBytes == [buf |-> <<>>, wire |-> <<>>, sent |-> <<>>, lead |-> <<>>, got |-> <<>>,
            bad |-> 0]

\* The messages a peer writes: JSON objects, one with a nested object.
ByteMessages == { <<"{", "1", "}">>, <<"{", "2", "{", "}", "}">> }

Whitespace(n) == [i \in 1 .. n |-> " "]

\* A message longer than the buffer: an object whose first sizeof(client->buf)
\* bytes hold no closing brace and whose last member is an object itself.
Oversized == <<"{">> \o [i \in 1 .. BufSize - 1 |-> "x"] \o <<"{", "4", "}", "}">>

\* A malformed message: a byte that starts no JSON value.
Malformed == <<"x">>

BadMessages == {Oversized, Malformed}

\* The tokener's whitespace state: the first index from i on that holds no
\* whitespace (Len(buf) + 1: there is none).
RECURSIVE eatws(_, _)
eatws(buf, i) ==
  IF i > Len(buf) \/ buf[i] # " " THEN i ELSE eatws(buf, i + 1)

\* The index of the "}" that closes the object open at depth, from i on
\* (0: the bytes end before it).
RECURSIVE object_end(_, _, _)
object_end(buf, i, depth) ==
  IF i > Len(buf) THEN 0
  ELSE IF buf[i] = "{" THEN object_end(buf, i + 1, depth + 1)
  ELSE IF buf[i] = "}" THEN (IF depth = 1 THEN i ELSE object_end(buf, i + 1, depth - 1))
  ELSE object_end(buf, i + 1, depth)

\* json_tokener_parse_ex of a fresh or reset tokener on buf: leading
\* whitespace is skipped, one object is parsed, and the whitespace behind it
\* is consumed with it.  err is json_tokener_success, _continue (the bytes
\* end inside or before a value) or an error; offset is tok->char_offset.
json_tokener_parse_ex(buf) ==
  LET i == eatws(buf, 1)
      j == object_end(buf, i + 1, 1)
  IN  IF i > Len(buf) THEN [err |-> "continue", offset |-> Len(buf), obj |-> <<>>]
      ELSE IF buf[i] # "{" THEN [err |-> "error", offset |-> i - 1, obj |-> <<>>]
      ELSE IF j = 0 THEN [err |-> "continue", offset |-> Len(buf), obj |-> <<>>]
      ELSE [err |-> "success", offset |-> eatws(buf, j + 1) - 1, obj |-> SubSeq(buf, i, j)]

\* The loop of handle_client run as an if: one parse for each read.
decode_once(D) ==
  IF Len(D.buf) = 0 THEN D
  ELSE LET r == json_tokener_parse_ex(D.buf)
       IN  CASE r.err = "success" ->
                  [D EXCEPT !.buf = SubSeq(@, r.offset + 1, Len(@)),
                            !.got = Append(@, r.obj)]
             [] r.err = "continue" ->
                  IF Len(D.buf) >= BufSize THEN [D EXCEPT !.buf = <<>>] ELSE D
             [] OTHER -> [D EXCEPT !.buf = <<>>]

\* The loop of handle_client without the discard of a full buffer that holds
\* no complete message.
RECURSIVE decode_bytes_keep_full(_)
decode_bytes_keep_full(D) ==
  IF Len(D.buf) = 0 THEN D
  ELSE LET r == json_tokener_parse_ex(D.buf)
       IN  CASE r.err = "success" ->
                  decode_bytes_keep_full([D EXCEPT !.buf = SubSeq(@, r.offset + 1, Len(@)),
                                                   !.got = Append(@, r.obj)])
             [] r.err = "continue" -> D
             [] OTHER -> [D EXCEPT !.buf = <<>>]

\* The while loop of handle_client over the buffer, D.got taking the objects
\* that reach the dispatch.
RECURSIVE decode_bytes(_)
decode_bytes(D) ==
  IF Len(D.buf) = 0 THEN D
  ELSE LET r == json_tokener_parse_ex(D.buf)
       IN  CASE r.err = "success" ->
                  decode_bytes([D EXCEPT !.buf = SubSeq(@, r.offset + 1, Len(@)),
                                         !.got = Append(@, r.obj)])
             [] r.err = "continue" ->
                  IF Len(D.buf) >= BufSize THEN [D EXCEPT !.buf = <<>>] ELSE D
             [] OTHER -> [D EXCEPT !.buf = <<>>]

\* read(2) returning len bytes into buf + buflen, and the decoding of them.
read_bytes(D, len) ==
  decode_bytes([D EXCEPT !.buf = @ \o SubSeq(D.wire, 1, len),
                         !.wire = SubSeq(@, len + 1, Len(@))])

\* --------------------------------------------------------- option parsing
DEFAULT_KILL_TIMEOUT == 60

\* The characters of an argument of -t, and the arguments.
ArgChars == {"-", "x", "0", "1", "6", "9"}
Args == UNION {[1 .. n -> ArgChars] : n \in 0 .. MaxArgLen}

ULONG_MAX == 2 ^ ULongWidth - 1

IsDigit(ch) == \E d \in 1 .. 10 : Digits[d] = ch
DigitVal(ch) == (CHOOSE d \in 1 .. 10 : Digits[d] = ch) - 1

\* The digits of s from i on: their value (ULONG_MAX once it is out of
\* range), and the index behind them.
RECURSIVE strtoul_digits(_, _, _, _)
strtoul_digits(s, i, acc, over) ==
  IF i > Len(s) \/ ~IsDigit(s[i]) THEN [val |-> acc, end |-> i, over |-> over]
  ELSE LET v == acc * 10 + DigitVal(s[i])
       IN  IF over \/ v > ULONG_MAX
           THEN strtoul_digits(s, i + 1, ULONG_MAX, TRUE)
           ELSE strtoul_digits(s, i + 1, v, FALSE)

\* strtoul(s, &endptr, 10): white space, an optional sign, digits.  Without
\* digits the result is 0 and endptr is s; a value out of range gives
\* ULONG_MAX and ERANGE; after a minus sign the value is negated as an
\* unsigned long.  endptr is an index into s (Len(s) + 1: the terminating NUL).
strtoul(s) ==
  LET i   == eatws(s, 1)
      neg == i <= Len(s) /\ s[i] = "-"
      j   == IF i <= Len(s) /\ s[i] \in {"-", "+"} THEN i + 1 ELSE i
      d   == strtoul_digits(s, j, 0, FALSE)
  IN  IF d.end = j THEN [val |-> 0, endptr |-> 1, errno |-> "0"]
      ELSE IF d.over THEN [val |-> ULONG_MAX, endptr |-> d.end, errno |-> "ERANGE"]
      ELSE [val |-> IF neg THEN (2 ^ ULongWidth - d.val) % 2 ^ ULongWidth ELSE d.val,
            endptr |-> d.end, errno |-> "0"]

\* The conversion of an unsigned long to int in the assignment to
\* kill_timeout: the low bits, as a two's complement number.
to_int(u) ==
  LET m == u % 2 ^ IntWidth
  IN  IF m >= 2 ^ (IntWidth - 1) THEN m - 2 ^ IntWidth ELSE m

\* phase: "getopt" (main is about to parse its options), "run" (the event
\* loop), "exit" (usage was printed and main has exited with status).
Parsed == [phase |-> "run", given |-> FALSE, optarg |-> <<>>, status |-> 0]

\* case 't' of main's option loop.
getopt_t(o) ==
  LET r  == strtoul(o.optarg)
      kt == to_int(r.val)
  IN  IF r.errno # "0" \/ r.endptr <= Len(o.optarg) \/ kt = 0
      THEN [kill_timeout |-> kt, opts |-> [o EXCEPT !.phase = "exit", !.status = 1]]
      ELSE [kill_timeout |-> kt, opts |-> [o EXCEPT !.phase = "run"]]

\* ------------------------------------------------------------- event loop
\* Freed memory that neither vm_clients nor forced_cleanups points to is never
\* read again: its content is no part of the state.
Referenced(W, c) ==
  \/ \E k \in DOMAIN W.vm_clients : W.vm_clients[k] = c
  \/ \E i \in 1 .. Len(W.forced_cleanups) : W.forced_cleanups[i] = c

Forget(W) ==
  [W EXCEPT !.client = [c \in Clients |->
      IF @[c].alloc = "freed" /\ ~Referenced(W, c)
      THEN [NoClient EXCEPT !.alloc = "freed"]
      ELSE @[c]]]

\* One turn of main's loop ends with handle_forced_cleanup.
Set(W) ==
  \E W0 \in handle_forced_cleanup(W) :
    LET W1 == Forget(W0)
    IN
      /\ Len(W1.forced_cleanups) <= MaxPending
      /\ client' = W1.client
      /\ vm_clients' = W1.vm_clients
      /\ forced_cleanups' = W1.forced_cleanups
      /\ needs_cleanup' = W1.needs_cleanup
      /\ running' = W1.running
      /\ obs' = W1.obs
      /\ UNCHANGED <<env, kill_timeout, now, decoder, opts>>

\* The state after main's option parsing and setup, in environment E.
InitIn(E) ==
  /\ env = E
  /\ client = [c \in Clients |-> NoClient]
  /\ vm_clients = [k \in VmidKeys |-> 0]
  /\ forced_cleanups = <<>>
  /\ needs_cleanup = 0
  /\ kill_timeout \in E.timeouts
  /\ now = 0
  /\ running = TRUE
  /\ obs = [c \in Clients |-> [NoObs EXCEPT !.script = E.script]]
  /\ decoder = NoBytes
  /\ opts = Parsed

\* One turn of main's loop: epoll_wait reports the listening socket.  The
\* peers connect and send up to time env.quiet.
Accept ==
  /\ running
  /\ now <= env.quiet
  /\ \E c \in 1 .. env.clients :
       /\ client[c].alloc = "none"
       /\ \A d \in Clients : d < c => client[d].alloc # "none"
       /\ \E pid \in env.pids : Set(add_new_client(World, c, pid))

\* One turn of main's loop: epoll_wait reports a client's socket.
Readable ==
  /\ running
  /\ now <= env.quiet
  /\ \E c \in Clients :
       /\ client[c].alloc = "live"
       /\ \E W \in handle_client(World, c) : Set(W)

\* The timeout main gives to epoll_wait, in milliseconds; -1 is no timeout.
epoll_timeout == IF needs_cleanup # 0 THEN 10 * 1000 ELSE -1

\* One turn of main's loop: epoll_wait times out (it has a timeout only while
\* needs_cleanup is set).
Timeout ==
  /\ running
  /\ epoll_timeout >= 0
  /\ Set(World)

\* The clock advances.  It is read only to set and to compare deadlines.
Tick ==
  /\ now < env.horizon
  /\ forced_cleanups # <<>>
  /\ now' = now + 1
  /\ UNCHANGED <<env, client, vm_clients, forced_cleanups, needs_cleanup,
                 kill_timeout, running, obs, decoder, opts>>

Next == Accept \/ Readable \/ Timeout \/ Tick

\* main's option loop: -t, when given, sets kill_timeout or ends the program.
Getopt ==
  /\ opts.phase = "getopt"
  /\ IF opts.given
     THEN LET r == getopt_t(opts)
          IN  kill_timeout' = r.kill_timeout /\ opts' = r.opts
     ELSE kill_timeout' = kill_timeout /\ opts' = [opts EXCEPT !.phase = "run"]
  /\ UNCHANGED <<env, client, vm_clients, forced_cleanups, needs_cleanup, now,
                 running, obs, decoder>>

\* The program from its start: the options, then the event loop.
InitOptions(E) ==
  /\ env = E
  /\ client = [c \in Clients |-> NoClient]
  /\ vm_clients = [k \in VmidKeys |-> 0]
  /\ forced_cleanups = <<>>
  /\ needs_cleanup = 0
  /\ kill_timeout = DEFAULT_KILL_TIMEOUT
  /\ now = 0
  /\ running = TRUE
  /\ obs = [c \in Clients |-> NoObs]
  /\ decoder = NoBytes
  /\ \E given \in BOOLEAN, a \in Args :
       /\ (~given => a = <<>>)
       /\ opts = [phase |-> "getopt", given |-> given, optarg |-> a, status |-> 0]

NextOptions == Getopt \/ (opts.phase = "run" /\ Next)

\* The peer writes a message, behind the whitespace that separates it from
\* the message before.
PeerWrites ==
  /\ Len(decoder.sent) < MaxMsgs
  /\ \E m \in ByteMessages, n \in 0 .. MaxSep :
       decoder' = [decoder EXCEPT !.wire = @ \o Whitespace(n) \o m,
                                  !.sent = Append(@, m),
                                  !.lead = Append(@, n)]
  /\ UNCHANGED <<env, client, vm_clients, forced_cleanups, needs_cleanup,
                 kill_timeout, now, running, obs, opts>>

\* handle_client on a read that returns some of the bytes written: at most
\* sizeof(client->buf) - buflen of them.
ReadBytes ==
  /\ \E len \in 1 .. BufSize - Len(decoder.buf) :
       /\ len <= Len(decoder.wire)
       /\ decoder' = read_bytes(decoder, len)
  /\ UNCHANGED <<env, client, vm_clients, forced_cleanups, needs_cleanup,
                 kill_timeout, now, running, obs, opts>>

NextBytes == PeerWrites \/ ReadBytes

\* The peer writes an oversized or a malformed message.
PeerWritesBad ==
  /\ decoder.bad < MaxBad
  /\ \E m \in BadMessages :
       decoder' = [decoder EXCEPT !.wire = @ \o m, !.bad = @ + 1]
  /\ UNCHANGED <<env, client, vm_clients, forced_cleanups, needs_cleanup,
                 kill_timeout, now, running, obs, opts>>

NextResync == PeerWrites \/ PeerWritesBad \/ ReadBytes

\* ------------------------------------------------------------ environments
Banner == [k |-> "QMP"]
Shutdown(g) == [k |-> "event", name |-> "SHUTDOWN", guest |-> g]
Return(st) == [k |-> "return", status |-> st]
Vzdump(v) == [k |-> "vzdump", vmid |-> v]

\* One connection, of a process of VM 1 or of a process outside qemu.slice;
\* every outcome of read, write, pidfd_open and fork.
EnvOne == [clients |-> 1, pids |-> {1, 4},
           msgs |-> {Banner, Shutdown("true"), Return("none"), Return("running"),
                     Return("shutdown"), [k |-> "error"],
                     Vzdump([t |-> "absent"]), Vzdump([t |-> "string", s |-> "1"])},
           more |-> {Banner, Shutdown("true"), Return("shutdown")},
           batch |-> MaxBatch,
           reads |-> {"EAGAIN", "error", "EOF", "data"},
           write |-> {TRUE, FALSE}, pidfd |-> {"fd", "ESRCH", "ENOSYS"},
           fork |-> {TRUE, FALSE}, cgroup |-> {"ok"}, script |-> FALSE,
           timeouts |-> 1 .. MaxTimeout, quiet |-> MaxTime, horizon |-> MaxTime]

\* A VM connection and a backup connection of VM 1 with SHUTDOWN events; the
\* peers send at time 0 only, and no system call fails.
EnvShutdown == [clients |-> 2, pids |-> {1},
                msgs |-> {Banner, Return("shutdown"), Shutdown("true"),
                          Vzdump([t |-> "string", s |-> "1"])},
                more |-> {}, batch |-> 1, reads |-> {"EOF", "data"},
                write |-> {TRUE}, pidfd |-> {"fd"}, fork |-> {TRUE},
                cgroup |-> {"ok"}, script |-> FALSE,
                timeouts |-> {1}, quiet |-> 0, horizon |-> 1]

\* One VM connection whose SHUTDOWN events have a data.guest member that is
\* true or false, or have none; no failing system call.
EnvGuest == [clients |-> 1, pids |-> {1},
             msgs |-> {Banner, Return("none"), Return("shutdown"), Shutdown("true"),
                       Shutdown("false"), Shutdown("absent")},
             more |-> {}, batch |-> 1, reads |-> {"EOF", "data"},
             write |-> {TRUE}, pidfd |-> {"fd"}, fork |-> {TRUE},
             cgroup |-> {"ok"}, script |-> FALSE,
             timeouts |-> 1 .. MaxTimeout, quiet |-> MaxTime, horizon |-> MaxTime]

\* One VM connection to which any write may fail, with reads that deliver
\* several messages; the peer sends at time 0 only.
EnvWrites == [clients |-> 1, pids |-> {1},
              msgs |-> {Banner, Return("none"), Shutdown("true"), Return("shutdown"),
                        [k |-> "error"]},
              more |-> {Banner, Shutdown("true"), Return("shutdown")},
              batch |-> MaxBatch, reads |-> {"EOF", "data"},
              write |-> {TRUE, FALSE}, pidfd |-> {"fd", "ENOSYS"}, fork |-> {TRUE},
              cgroup |-> {"ok"},
              script |-> FALSE, timeouts |-> 1 .. MaxTimeout, quiet |-> 0, horizon |-> 1]

\* Two VM connections, of VM 1 and VM 2, escalated at time 0 or 1, and no
\* failing system call.
EnvTwo == [clients |-> 2, pids |-> {1, 3},
           msgs |-> {Banner, Shutdown("true"), Return("shutdown"), [k |-> "error"]},
           more |-> {}, batch |-> 1, reads |-> {"EOF", "data"},
           write |-> {TRUE}, pidfd |-> {"fd"}, fork |-> {TRUE}, cgroup |-> {"ok"}, script |-> FALSE,
           timeouts |-> {1}, quiet |-> 1, horizon |-> 1]

\* One connection of a process of VM 1 or of a process outside qemu.slice,
\* whose /proc entry may be gone when a banner is handled.
EnvResolve == [clients |-> 1, pids |-> {1, 4},
               msgs |-> {Banner, Return("none"), Shutdown("true"), Return("shutdown")},
               more |-> {}, batch |-> 1, reads |-> {"EOF", "data"},
               write |-> {TRUE}, pidfd |-> {"fd"}, fork |-> {TRUE},
               cgroup |-> {"ok", "ENOENT"}, script |-> FALSE,
               timeouts |-> 1 .. MaxTimeout, quiet |-> MaxTime, horizon |-> MaxTime]

\* One VM connection that is escalated, after the options were parsed.
EnvOptions == [clients |-> 1, pids |-> {1},
               msgs |-> {Banner, Return("none"), Shutdown("true"), Return("shutdown")},
               more |-> {}, batch |-> 1, reads |-> {"EOF", "data"},
               write |-> {TRUE}, pidfd |-> {"fd"}, fork |-> {TRUE}, cgroup |-> {"ok"},
               script |-> FALSE, timeouts |-> {DEFAULT_KILL_TIMEOUT},
               quiet |-> 0, horizon |-> 1]

\* A VM and the connections around it: three connections of processes of
\* VM 1, no failing system call.
EnvBackup == [clients |-> MaxClients, pids |-> {1},
              msgs |-> {Banner, Return("shutdown"), Vzdump([t |-> "string", s |-> "1"])},
              more |-> {}, batch |-> 1, reads |-> {"EOF", "data"},
              write |-> {TRUE}, pidfd |-> {"fd"}, fork |-> {TRUE},
              cgroup |-> {"ok"}, script |-> FALSE,
              timeouts |-> {1}, quiet |-> 1, horizon |-> 1]

\* One VM connection whose peer goes silent after time 1 while the clock runs
\* on past every deadline.
EnvFair == [clients |-> 1, pids |-> {1},
            msgs |-> {Banner, Return("none"), Shutdown("true"), Return("shutdown"),
                      [k |-> "error"]},
            more |-> {}, batch |-> 1, reads |-> {"EOF", "data"},
            write |-> {TRUE, FALSE}, pidfd |-> {"fd", "ESRCH", "ENOSYS"},
            fork |-> {TRUE}, cgroup |-> {"ok"}, script |-> FALSE,
            timeouts |-> 1 .. MaxTimeout, quiet |-> 1, horizon |-> 1 + MaxTimeout]

\* One VM connection (of VM 1 or VM 2) that may follow Scenario A, with every
\* outcome of write, pidfd_open and fork.
EnvScenario == [clients |-> 1, pids |-> {1, 3},
                msgs |-> {Banner, Return("none"), Shutdown("true"), Shutdown("false"),
                          Return("shutdown")},
                more |-> {}, batch |-> 1, reads |-> {"EOF", "data"},
                write |-> {TRUE, FALSE}, pidfd |-> {"fd", "ESRCH", "ENOSYS"},
                fork |-> {TRUE, FALSE}, cgroup |-> {"ok"}, script |-> TRUE,
                timeouts |-> 1 .. MaxTimeout, quiet |-> MaxTime, horizon |-> MaxTime]

Init == InitIn(EnvOne)
Spec == Init /\ [][Next]_vars
SpecBackup == InitIn(EnvBackup) /\ [][Next]_vars

SpecShutdown == InitIn(EnvShutdown) /\ [][Next]_vars
SpecGuest == InitIn(EnvGuest) /\ [][Next]_vars
SpecWrites == InitIn(EnvWrites) /\ [][Next]_vars
SpecTwo == InitIn(EnvTwo) /\ [][Next]_vars
SpecResolve == InitIn(EnvResolve) /\ [][Next]_vars
SpecOptions == InitOptions(EnvOptions) /\ [][NextOptions]_vars

SpecScenario == InitIn(EnvScenario) /\ [][Next]_vars

\* The decoder of one connection and the byte stream of its peer.
SpecBytes == InitIn(EnvOne) /\ [][NextBytes]_vars

\* The decoder of one connection whose peer also writes messages the decoder
\* discards.
SpecResync == InitIn(EnvOne) /\ [][NextResync]_vars

\* One VM connection that sends events, returns and errors in any order.
SpecReturns == InitIn(EnvFair) /\ [][Next]_vars

\* epoll_wait has a timeout of 10 s while needs_cleanup is set, so the loop
\* keeps turning while a kill is pending; and time passes.
SpecFair == InitIn(EnvFair) /\ [][Next]_vars /\ WF_vars(Timeout) /\ WF_vars(Tick)

\* ------------------------------------------------------------------ claims
\* C1: the cleanup action is launched exactly once for every teardown of a
\* connection whose role is VM, never for the teardown of another connection,
\* and never more than once for one connection.
C1_CleanupOncePerVmTeardown ==
  \A c \in Clients :
    /\ obs[c].launches = obs[c].qemu_teardowns
    /\ obs[c].launches <= 1

\* C2: no forced kill is sent for an escalation before its start time plus
\* the kill timeout.
C2_NoKillBeforeDeadline ==
  \A c \in Clients : ~obs[c].early

\* Connection c is open and forced_cleanups holds an entry for it.
Pending(c) ==
  /\ client[c].alloc = "live"
  /\ \E i \in 1 .. Len(forced_cleanups) : forced_cleanups[i] = c

\* The sweep has sent c's process a SIGKILL and no entry for c is left.
ForceKilled(c) ==
  /\ client[c].alloc = "live"
  /\ obs[c].sigkills > 0
  /\ \A i \in 1 .. Len(forced_cleanups) : forced_cleanups[i] # c

\* C3: a connection with a pending kill that is never torn down is
\* eventually force-killed by the sweep and its entry removed, as long as the
\* daemon runs.
C3_PendingKillIsSent ==
  \A c \in Clients :
    Pending(c) ~> (ForceKilled(c) \/ client[c].alloc # "live" \/ ~running)

C3_Witness ==
  \E c \in Clients :
    /\ ForceKilled(c)
    /\ client[c].state = "STATE_TERMINATING"
    /\ now >= obs[c].esc_start + kill_timeout

\* C4: for each connection at most one status query is in flight (sent, with
\* no return or error of it handled since).
C4_OneQueryInFlight ==
  \A c \in Clients : obs[c].inflight <= 1

\* Connection k is a live backup connection registered against the VMID of
\* the live VM connection v that vm_clients holds for it.
Guards(k, v) ==
  /\ client[k].alloc = "live"
  /\ client[k].type = "CLIENT_VZDUMP"
  /\ client[v].alloc = "live"
  /\ client[v].type = "CLIENT_QEMU"
  /\ client[k].vzdump_vmid = client[v].qemu_vmid
  /\ g_hash_table_lookup(vm_clients, client[v].qemu_vmid) = v

\* C5: no step begins the escalation of a VM connection while a backup
\* connection registered against its VMID stays connected.
C5_NoEscalationDuringBackup ==
  [][\A k, v \in Clients :
       (k # v /\ Guards(k, v) /\ client'[k].alloc = "live")
         => obs'[v].escalations = obs[v].escalations]_vars

\* Connection k, a live CLIENT_VZDUMP whose target is registered, is torn down
\* by this step.
CoordinatorTornDown(k) ==
  /\ client[k].alloc = "live"
  /\ client[k].type = "CLIENT_VZDUMP"
  /\ g_hash_table_lookup(vm_clients, client[k].vzdump_vmid) # 0
  /\ client'[k].alloc # "live"

\* This step wrote a query-status to connection v.
QuerySent(v) == obs'[v].inflight > obs[v].inflight \/ obs'[v].inflight = 2

\* C6: the teardown of a backup connection whose target VMID is registered
\* clears the target's backup flag and runs its termination check: a
\* query-status is written when the target is idle, else term_check_queued is
\* set.
C6_CoordinatorTeardownRechecks ==
  [][\A k \in Clients :
       CoordinatorTornDown(k) =>
         LET vmc == g_hash_table_lookup(vm_clients, client[k].vzdump_vmid)
         IN  /\ ~client'[vmc].backup
             /\ IF client[vmc].state = "STATE_IDLE"
                THEN QuerySent(vmc)
                ELSE client'[vmc].term_check_queued]_vars

\* Connection c has sent all of Scenario A, its close included.
ScenarioDone(c) == obs[c].script /\ obs[c].scn = Len(ScenarioA)

\* The outputs of Scenario A: capabilities, status query, quit, and one launch
\* of the cleanup with graceful = 1 and guest = 1; no forced kill.
ScenarioOutputs(c) ==
  /\ \E v \in VmidKeys :
       obs[c].out = <<"qmp_capabilities", "query-status", "quit",
                      "qm cleanup " \o v \o " 1 1">>
  /\ obs[c].launches = 1
  /\ obs[c].sigkills = 0

C8_LookupReturnsVmConnection ==
  \A c \in Clients :
    (client[c].alloc = "live" /\ client[c].type = "CLIENT_QEMU")
      => g_hash_table_lookup(vm_clients, client[c].qemu_vmid) = c

\* C9: each entry of vm_clients maps its VMID to a connection that is not
\* torn down, has type CLIENT_QEMU and carries that VMID.
C9_RegistryEntriesLive ==
  \A k \in DOMAIN vm_clients :
    vm_clients[k] # 0 =>
      /\ client[vm_clients[k]].alloc = "live"
      /\ client[vm_clients[k]].type = "CLIENT_QEMU"
      /\ client[vm_clients[k]].qemu_vmid = k

\* The messages dispatched are the messages sent, each once and in order:
\* always a prefix of them, and all of them once every byte is read.
DispatchedEqualsSent ==
  /\ Len(decoder.got) <= Len(decoder.sent)
  /\ decoder.got = SubSeq(decoder.sent, 1, Len(decoder.got))
  /\ decoder.wire = <<>> => decoder.got = decoder.sent

\* Every message written is shorter than the buffer.
MessagesFit ==
  \A i \in 1 .. Len(decoder.sent) : Len(decoder.sent[i]) < BufSize

\* Every message written, with the whitespace before it, is no longer than
\* the buffer.
SeparatedMessagesFit ==
  \A i \in 1 .. Len(decoder.sent) : decoder.lead[i] + Len(decoder.sent[i]) <= BufSize

\* C10 as stated: messages shorter than the buffer are dispatched each once
\* and in order, however the bytes are split into reads.
C10_Decoder_Stated == MessagesFit => DispatchedEqualsSent

\* C10: messages that with the whitespace before them are no longer than the
\* buffer are dispatched each once and in order, however the bytes are split
\* into reads.
C10_Decoder == SeparatedMessagesFit => DispatchedEqualsSent

C10_Witness ==
  /\ Len(decoder.sent) = MaxMsgs
  /\ decoder.wire = <<>>
  /\ decoder.got = decoder.sent
  /\ \E i \in 1 .. Len(decoder.sent) :
       decoder.lead[i] > 0 /\ decoder.lead[i] + Len(decoder.sent[i]) = BufSize

\* C11: once the peer has written an oversized or malformed message, the
\* well-formed messages it writes (each fitting the buffer with its leading
\* whitespace) are still dispatched each once, unaltered and in order, and
\* nothing else is dispatched: no fragment of the discarded message.
C11_ResyncAfterReset ==
  (decoder.bad > 0 /\ SeparatedMessagesFit) => DispatchedEqualsSent

\* C12: the graceful argument of a cleanup launch is 1 exactly when a SHUTDOWN
\* event of the connection was received before its teardown, whatever state
\* the connection was in.
C12_GracefulIffShutdownSeen ==
  \A c \in Clients :
    obs[c].launches > 0 => (obs[c].graceful_arg = 1 <=> obs[c].shutdown)

\* C13: the guest argument of a cleanup launch is 1 exactly when the last
\* SHUTDOWN event recorded for the connection had a data.guest member that was
\* true; it is 0 when none was recorded or the last had no such member.
C13_GuestFromLastShutdown ==
  \A c \in Clients :
    obs[c].launches > 0 => (obs[c].guest_arg = 1 <=> obs[c].last_guest = "true")

\* C14: a step that leaves a connection in STATE_TERMINATING open leaves it
\* in STATE_TERMINATING (so no status query was written to it) and starts no
\* further escalation for it, whatever event, return or error it handled.
C14_TerminatingIsFinal ==
  [][\A c \in Clients :
       (/\ client[c].alloc = "live"
        /\ client[c].state = "STATE_TERMINATING"
        /\ client'[c].alloc = "live")
         => /\ client'[c].state = "STATE_TERMINATING"
            /\ obs'[c].escalations = obs[c].escalations]_vars

C16_RoleFixed ==
  [][\A c \in Clients :
       (/\ client[c].alloc = "live"
        /\ client[c].type # "CLIENT_NONE"
        /\ client'[c].alloc = "live")
         => client'[c].type = client[c].type]_vars

\* C17: the deadline of a pending kill of an open connection is fixed: no
\* step changes it while the entry stays pending, whatever escalations the
\* step starts; and a sweep leaves no entry of an open connection whose
\* deadline has been reached.
C17_DeadlinePerEscalation ==
  [][\A c \in Clients :
       /\ (Pending(c) /\ Pending(c)') => client'[c].timeout = client[c].timeout
       /\ (now' = now /\ running' /\ Pending(c)') => client'[c].timeout > now]_vars

\* C18: the teardown of a connection removes its pending kill: once a
\* connection is torn down forced_cleanups holds no entry for it, so no later
\* sweep can send a forced kill for it or touch its state.
C18_TeardownCancelsKill ==
  \A c \in Clients :
    client[c].alloc # "live" =>
      \A i \in 1 .. Len(forced_cleanups) : forced_cleanups[i] # c

\* C19: a connection for which the VMID of a banner could not be resolved is
\* torn down by that step, vm_clients holds no entry for it, and no cleanup
\* was launched for it.
C19_UnresolvedBannerDrops ==
  \A c \in Clients :
    obs[c].unresolved =>
      /\ client[c].alloc # "live"
      /\ \A k \in DOMAIN vm_clients : vm_clients[k] # c
      /\ obs[c].launches = 0

\* C20: once the options are parsed the kill timeout is positive (an argument
\* of -t that is no positive number an int holds ends the program with a
\* non-zero status), so the deadline of every pending kill is later than the
\* time its escalation began.
C20_KillTimeoutPositive ==
  /\ opts.phase = "run" => kill_timeout > 0
  /\ opts.phase = "exit" => opts.status # 0
  /\ \A c \in Clients : Pending(c) => client[c].timeout > obs[c].esc_start

\* The entries forced_cleanups holds for connection c.
Entries(c) == Cardinality({i \in 1 .. Len(forced_cleanups) : forced_cleanups[i] = c})

\* C21: forced_cleanups holds at most one entry for each connection, and no
\* entry for a connection that has been torn down (so each entry is removed
\* once, by the teardown of its connection or by the forced kill of the sweep).
C21_OneEntryPerConnection ==
  \A c \in Clients :
    /\ Entries(c) <= 1
    /\ Entries(c) > 0 => client[c].alloc = "live"

\* A VM connection and a backup connection of VM 1 whose status returns report
\* a running or a stopped VM; the peers send at time 0 only and stay connected.
EnvStatus == [clients |-> 2, pids |-> {1},
              msgs |-> {Banner, Return("running"), Return("shutdown"), Shutdown("true"),
                        Vzdump([t |-> "string", s |-> "1"])},
              more |-> {}, batch |-> 1, reads |-> {"data"},
              write |-> {TRUE}, pidfd |-> {"fd"}, fork |-> {TRUE},
              cgroup |-> {"ok"}, script |-> FALSE,
              timeouts |-> {1}, quiet |-> 0, horizon |-> 1]

SpecStatus == InitIn(EnvStatus) /\ [][Next]_vars

\* The "status" member of a return object: none, or a run state of the VM.
Statuses == {"none", "running", "paused", "shutdown"}

\* Connection c is left open and Idle, and nothing was written to it.
IdleNoCommand(W, c) ==
  /\ W.client[c].alloc = "live"
  /\ W.client[c].state = "STATE_IDLE"
  /\ W.obs[c].inflight = 0
  /\ W.forced_cleanups = forced_cleanups

\* The termination check was run again for connection c: one status query was
\* written to it (or the write failed and it was torn down).
Requeried(W, c) ==
  \/ W.client[c].alloc # "live"
  \/ /\ W.client[c].state = "STATE_EXPECT_STATUS_RESP"
     /\ ~W.client[c].term_check_queued
     /\ W.obs[c].inflight = 1
     /\ W.forced_cleanups = forced_cleanups

\* terminate_client was called for connection c, and no status query written.
Escalated(W, c) ==
  /\ W.client[c].state = "STATE_TERMINATING"
  /\ W.obs[c].inflight = 0
  /\ W.forced_cleanups \in {forced_cleanups, <<c>> \o forced_cleanups}

\* Connection c is open and waits for the return of a status query.
ExpectsStatus(c) ==
  client[c].alloc = "live" /\ client[c].state = "STATE_EXPECT_STATUS_RESP"

\* C22 as stated: a success return handled in STATE_EXPECT_STATUS_RESP leaves
\* the connection Idle with no command sent when the status is running or
\* paused, or when the backup flag is set; else it calls terminate_client and
\* leaves the connection Terminating.
C22_StatusReturn_Stated ==
  \A c \in Clients : ExpectsStatus(c) =>
    \A st \in Statuses : \A W \in handle_qmp_return(World, c, st, FALSE) :
      IF st \in {"running", "paused"} \/ client[c].backup
      THEN IdleNoCommand(W, c)
      ELSE Escalated(W, c)

\* C22: a success return handled in STATE_EXPECT_STATUS_RESP with
\* term_check_queued clear leaves the connection Idle with no command sent
\* when the status is running or paused, or when the backup flag is set; with
\* term_check_queued set these two cases end with the termination check run
\* again, a new status query written and the connection back in
\* STATE_EXPECT_STATUS_RESP.  Any other status with the backup flag clear
\* calls terminate_client and leaves the connection Terminating.
C22_StatusReturn ==
  \A c \in Clients : ExpectsStatus(c) =>
    \A st \in Statuses : \A W \in handle_qmp_return(World, c, st, FALSE) :
      IF st \in {"running", "paused"} \/ client[c].backup
      THEN IF client[c].term_check_queued THEN Requeried(W, c) ELSE IdleNoCommand(W, c)
      ELSE Escalated(W, c)

\* A VM connection under backup whose SHUTDOWN event led to a status query,
\* and whose return left it Idle.
C22_Witness ==
  \E c \in Clients :
    /\ client[c].alloc = "live"
    /\ client[c].type = "CLIENT_QEMU"
    /\ client[c].state = "STATE_IDLE"
    /\ client[c].backup
    /\ obs[c].shutdown
    /\ obs[c].inflight = 0
    /\ obs[c].escalations = 0

\* C23: terminate_check on an open connection whose state is not STATE_IDLE
\* sets term_check_queued, changes nothing else and writes nothing; on an
\* open connection in STATE_IDLE it clears term_check_queued, sets
\* STATE_EXPECT_STATUS_RESP and writes one status query, changing nothing
\* else (a write that fails ends in the teardown of the connection).
C23_TerminateCheck ==
  \A c \in Clients : client[c].alloc = "live" =>
    \A W \in terminate_check(World, c) :
      IF client[c].state # "STATE_IDLE"
      THEN /\ W.client = [client EXCEPT ![c].term_check_queued = TRUE]
           /\ W.obs = obs
           /\ W.vm_clients = vm_clients
           /\ W.forced_cleanups = forced_cleanups
      ELSE \/ /\ W.client = [client EXCEPT ![c].term_check_queued = FALSE,
                                           ![c].state = "STATE_EXPECT_STATUS_RESP"]
              /\ W.obs = [obs EXCEPT ![c].inflight = @ + 1]
              /\ W.vm_clients = vm_clients
              /\ W.forced_cleanups = forced_cleanups
           \/ /\ W.obs[c].write_failed = "query-status"
              /\ W.obs[c].inflight = obs[c].inflight
              /\ W.client[c].alloc # "live"

\* A connection to which one status query was written by a check run in
\* STATE_IDLE, and on which a later check, run before the return, was queued.
C23_Witness ==
  \E c \in Clients :
    /\ client[c].alloc = "live"
    /\ client[c].state = "STATE_EXPECT_STATUS_RESP"
    /\ client[c].term_check_queued
    /\ obs[c].inflight = 1

\* The returns the peers of this run send: success and error returns.
Answers == {m \in env.msgs : m.k \in {"return", "error"}}

\* One turn of main's loop: a return is read from connection c while its
\* termination check is queued.  (The peer of a queued check answers at any
\* time: this is the return the queued check waits for.)
Answer(c) ==
  /\ running
  /\ client[c].alloc = "live"
  /\ client[c].term_check_queued
  /\ \E W \in decode_loop(World, c, Answers, env.batch) : Set(W)

NextAnswer == Next \/ \E c \in Clients : Answer(c)

\* One VM connection with SHUTDOWN events, returns and errors, to which a
\* write may fail; the peer sends at time 0 only, returns excepted.
EnvAnswerEvent ==
  [clients |-> 1, pids |-> {1},
   msgs |-> {Banner, Return("running"), Return("shutdown"), Shutdown("true"),
             [k |-> "error"]},
   more |-> {}, batch |-> 1, reads |-> {"EOF", "data"},
   write |-> {TRUE, FALSE}, pidfd |-> {"fd"}, fork |-> {TRUE},
   cgroup |-> {"ok"}, script |-> FALSE,
   timeouts |-> {1}, quiet |-> 0, horizon |-> 1]

\* A VM connection and a backup connection of VM 1 that close, without
\* SHUTDOWN events: a check is run when the backup connection ends.
EnvAnswerBackup ==
  [clients |-> 2, pids |-> {1},
   msgs |-> {Banner, Return("running"), Return("shutdown"),
             Vzdump([t |-> "string", s |-> "1"])},
   more |-> {}, batch |-> 1, reads |-> {"EOF", "data"},
   write |-> {TRUE}, pidfd |-> {"fd"}, fork |-> {TRUE},
   cgroup |-> {"ok"}, script |-> FALSE,
   timeouts |-> {1}, quiet |-> 0, horizon |-> 1]

\* The peer of a connection whose termination check is queued sends the
\* return that is outstanding.
SpecAnswer ==
  /\ InitIn(EnvAnswerEvent) \/ InitIn(EnvAnswerBackup)
  /\ [][NextAnswer]_vars
  /\ \A c \in Clients : WF_vars(Answer(c))

\* The check of connection c is queued behind a command whose return is
\* outstanding.
Queued(c) ==
  /\ client[c].alloc = "live"
  /\ client[c].term_check_queued
  /\ client[c].state \in {"STATE_HANDSHAKE", "STATE_EXPECT_STATUS_RESP"}

\* The queued check of connection c was run in STATE_IDLE (its status query
\* was written), or c is Terminating or torn down.
Rechecked(c) ==
  \/ client[c].alloc # "live"
  \/ ~client[c].term_check_queued
  \/ client[c].state = "STATE_TERMINATING"
  \/ ~running

\* C24: a termination check queued in STATE_HANDSHAKE or
\* STATE_EXPECT_STATUS_RESP (by a SHUTDOWN event or by the end of a backup) is
\* not lost: the handling of the next return or error either escalates or
\* runs the check again and writes a new status query, so the queued check is
\* eventually followed by a status query (or the connection is terminated).
C24_QueuedCheckIsRun ==
  /\ [](\A c \in Clients : Queued(c) =>
          \A st \in Statuses, err \in BOOLEAN :
            \A W \in handle_qmp_return(World, c, st, err) :
              W.client[c].state = "STATE_TERMINATING" \/ Requeried(W, c))
  /\ \A c \in Clients : Queued(c) ~> Rechecked(c)

\* A SHUTDOWN event of a VM connection has arrived before the return of the
\* capabilities command, and its check is queued.
C24_Witness ==
  \E c \in Clients :
    /\ Queued(c)
    /\ client[c].type = "CLIENT_QEMU"
    /\ client[c].state = "STATE_HANDSHAKE"
    /\ obs[c].shutdown

\* C25: a message handled for an open connection in STATE_HANDSHAKE moves it
\* out of STATE_HANDSHAKE only if it is a success return and the banner of
\* the connection was processed before (its type is CLIENT_QEMU): no event,
\* error return, return without a banner or vzdump handshake does.
C25_HandshakeEndsByReturn ==
  \A c \in Clients :
    (client[c].alloc = "live" /\ client[c].state = "STATE_HANDSHAKE") =>
      \A m \in Messages : \A W \in dispatch(World, c, m) :
        (W.client[c].alloc = "live" /\ W.client[c].state # "STATE_HANDSHAKE")
          => (m.k = "return" /\ client[c].type = "CLIENT_QEMU")

\* A vzdump handshake the specification has ignored: its vmid member is
\* absent, is no string, is too long for vzdump.vmid, or is no key of
\* vm_clients.
InvalidVmid(v) ==
  \/ v.t # "string"
  \/ Len(v.s) >= VmidSize
  \/ g_hash_table_lookup(vm_clients, v.s) = 0

\* C26: a vzdump handshake whose vmid is absent, no string, too long or not
\* registered leaves the type and the state of the sending connection,
\* vm_clients and the backup flag of every connection unchanged, and the
\* sender open.
C26_InvalidHandshakeIgnored ==
  \A c \in Clients : client[c].alloc = "live" =>
    \A v \in JsonVmids : InvalidVmid(v) =>
      \A W \in handle_vzdump_handshake(World, c, v) :
        /\ W.client[c].alloc = "live"
        /\ W.client[c].type = client[c].type
        /\ W.client[c].state = client[c].state
        /\ W.vm_clients = vm_clients
        /\ \A d \in Clients : W.client[d].backup = client[d].backup

\* The key handle_qmp_handshake inserts for connection c.
KeyOf(c) == DecStr(get_vmid_from_pid(client[c].pid))

\* C27: the insert handle_qmp_handshake makes for a connection whose VMID
\* already has an entry in vm_clients leaves vm_clients as it is (the entry
\* keeps the connection registered first); the remove of a key without an
\* entry changes nothing, and removing a key twice is removing it once.
C27_RegistryOps ==
  /\ \A c \in Clients :
       (client[c].alloc = "live" /\ g_hash_table_lookup(vm_clients, KeyOf(c)) # 0)
         => g_hash_table_insert(vm_clients, KeyOf(c), c) = vm_clients
  /\ \A k \in VmidKeys \cup {""} :
       /\ g_hash_table_lookup(vm_clients, k) = 0
            => g_hash_table_remove(vm_clients, k) = vm_clients
       /\ g_hash_table_remove(g_hash_table_remove(vm_clients, k), k)
            = g_hash_table_remove(vm_clients, k)

\* The outcomes of pidfd_open(2) in terminate_client.
PidfdResults == {"fd", "ESRCH", "ENOSYS"}

\* The world in which pidfd_open gives r and the next write succeeds or not.
WorldWith(r, ok) == [World EXCEPT !.env.pidfd = {r}, !.env.write = {ok}]

\* C28: terminate_client for a process that exists (pidfd_open gives a
\* descriptor, or fails with another error than ESRCH) prepends the
\* connection to forced_cleanups with timeout = now + kill_timeout, whether
\* the quit command was written or the write failed and SIGTERM was sent; for
\* a process that is gone (ESRCH) it writes and signals nothing and records
\* no entry.
C28_EscalationRecorded ==
  \A c \in Clients : ExpectsStatus(c) =>
    \A r \in PidfdResults, ok \in BOOLEAN :
      \A W \in terminate_client(WorldWith(r, ok), c) :
        IF r = "ESRCH"
        THEN /\ W.forced_cleanups = forced_cleanups
             /\ W.client[c].timeout = client[c].timeout
             /\ W.needs_cleanup = needs_cleanup
             /\ W.obs[c].out = obs[c].out
             /\ W.obs[c].write_failed = obs[c].write_failed
        ELSE /\ W.forced_cleanups = <<c>> \o forced_cleanups
             /\ W.client[c].timeout = now + kill_timeout
             /\ W.needs_cleanup = 1
             /\ W.client[c].alloc = "live"
             /\ obs[c].script =>
                  W.obs[c].out = Append(obs[c].out, IF ok THEN "quit" ELSE "SIGTERM")
             /\ W.obs[c].write_failed = IF ok THEN obs[c].write_failed ELSE "quit"

\* An escalation whose quit command could not be written: SIGTERM was sent
\* and the kill is pending with its deadline.
C28_Witness ==
  \E c \in Clients :
    /\ Pending(c)
    /\ client[c].state = "STATE_TERMINATING"
    /\ obs[c].write_failed = "quit"
    /\ obs[c].script
    /\ obs[c].out = <<"qmp_capabilities", "query-status", "SIGTERM">>
    /\ client[c].timeout = obs[c].esc_start + kill_timeout

\* The entries of forced_cleanups whose deadline has not elapsed.
NotElapsed ==
  LET later(c) == client[c].timeout > now
  IN  SelectSeq(forced_cleanups, later)

\* C29: handle_forced_cleanup removes from forced_cleanups exactly the
\* entries whose timeout has been reached, leaves the others and their
\* connections as they are, and sends a SIGKILL only to connections with an
\* entry that is removed; no connection is sent more forced kills than it
\* had escalations.
C29_SweepRemovesElapsed ==
  /\ running =>
       \A W \in handle_forced_cleanup(World) :
         /\ W.forced_cleanups = NotElapsed
         /\ \A c \in Clients :
              /\ (Entries(c) > 0 /\ client[c].timeout > now) => W.client[c] = client[c]
              /\ W.obs[c].sigkills # obs[c].sigkills
                   => (Entries(c) > 0 /\ client[c].timeout <= now)
  /\ \A c \in Clients : obs[c].sigkills <= obs[c].escalations

\* A VM connection and a backup connection of VM 1 with every outcome of
\* read(2); the peers send at time 0 only.
EnvReads == [clients |-> 2, pids |-> {1},
             msgs |-> {Banner, Return("running"), Return("shutdown"),
                       Vzdump([t |-> "string", s |-> "1"])},
             more |-> {}, batch |-> 1, reads |-> {"EAGAIN", "error", "EOF", "data"},
             write |-> {TRUE}, pidfd |-> {"fd"}, fork |-> {TRUE},
             cgroup |-> {"ok"}, script |-> FALSE,
             timeouts |-> {1}, quiet |-> 0, horizon |-> 1]

SpecReads == InitIn(EnvReads) /\ [][Next]_vars

\* The world in which the next read(2) has outcome r.
WorldRead(r) == [World EXCEPT !.env.reads = {r}]

\* C30: handle_client on a read that fails with EAGAIN changes nothing; on a
\* read that returns 0 or fails with another error it tears the connection
\* down (cleanup_client, counted once) and dispatches nothing: the type of
\* the connection and what was recorded of its events and escalations stay
\* as they were.
C30_ReadOutcomes ==
  \A c \in Clients : client[c].alloc = "live" =>
    /\ handle_client(WorldRead("EAGAIN"), c) = {WorldRead("EAGAIN")}
    /\ \A r \in {"EOF", "error"} : \A W \in handle_client(WorldRead(r), c) :
         /\ W.client[c].alloc # "live"
         /\ W.client[c].type = client[c].type
         /\ W.obs[c].qemu_teardowns + W.obs[c].other_teardowns
              > obs[c].qemu_teardowns + obs[c].other_teardowns
         /\ W.obs[c].shutdown = obs[c].shutdown
         /\ W.obs[c].escalations = obs[c].escalations
         /\ W.obs[c].unresolved = obs[c].unresolved

\* A VM connection that was closed while its kill was pending: it is torn
\* down, the cleanup was launched, and no entry of it is left.
C30_Witness ==
  \E c \in Clients :
    /\ client[c].alloc = "freed"
    /\ obs[c].qemu_teardowns = 1
    /\ obs[c].launches = 1
    /\ obs[c].escalations = 1
    /\ obs[c].sigkills = 0
    /\ Entries(c) = 0

\* The messages the dispatch ignores: no key of the five, no object, or an
\* event whose name is not SHUTDOWN.
Ignored ==
  {m \in Messages : m.k \in {"unknown", "scalar"} \/ (m.k = "event" /\ m.name # "SHUTDOWN")}

\* C31: the dispatch of a message without one of the five keys, of a
\* top-level value that is no object, or of an event whose name is not
\* SHUTDOWN changes nothing: no connection, vm_clients, forced_cleanups, and
\* nothing is written or signalled (the daemon runs on as before).
C31_IgnoredMessages ==
  \A c \in Clients : client[c].alloc = "live" =>
    \A m \in Ignored : dispatch(World, c, m) = {World}

\* C32: a step in which an open connection is not of type CLIENT_QEMU, before
\* and after, writes no status query and no quit command to it, sends its
\* process no signal and records no pending kill for it.
C32_EscalationOnlyForVm ==
  [][\A c \in Clients :
       (/\ client[c].alloc = "live"
        /\ client[c].type # "CLIENT_QEMU"
        /\ client'[c].type # "CLIENT_QEMU")
         => /\ obs'[c].inflight <= obs[c].inflight
            /\ obs'[c].escalations = obs[c].escalations
            /\ obs'[c].sigkills = obs[c].sigkills
            /\ Entries(c)' = Entries(c)]_vars

\* C33: when the handler of a message of an open connection has torn the
\* connection down (the VMID was not resolved, or a write failed), the decode
\* loop ends: what it leaves is what that one handler left, no further
\* buffered message is dispatched on the freed struct, and no connection is
\* torn down twice.
C33_NoDispatchAfterTeardown ==
  /\ \A c \in Clients : client[c].alloc = "live" =>
       \A m \in env.msgs :
         LET first == dispatch(Received(World, c, m), c, m)
         IN  (\E W \in first : W.client[c].alloc # "live")
               => decode_loop(World, c, {m}, env.batch) = first
  /\ \A c \in Clients : obs[c].qemu_teardowns + obs[c].other_teardowns <= 1

\* A VM connection and a backup connection of VM 1 whose peer may repeat its
\* handshake, also with a vmid that is too long; the peers send at time 0 only.
EnvCoordinator ==
  [clients |-> 2, pids |-> {1},
   msgs |-> {Banner, Return("running"), Return("shutdown"),
             Vzdump([t |-> "string", s |-> "1"]),
             Vzdump([t |-> "string", s |-> "1000000000000000"])},
   more |-> {}, batch |-> 1, reads |-> {"EOF", "data"},
   write |-> {TRUE}, pidfd |-> {"fd"}, fork |-> {TRUE},
   cgroup |-> {"ok"}, script |-> FALSE,
   timeouts |-> {1}, quiet |-> 0, horizon |-> 1]

SpecCoordinator == InitIn(EnvCoordinator) /\ [][Next]_vars

\* C34: the backup flag of an open VM connection is set only while an open
\* connection of type CLIENT_VZDUMP has the VMID of that VM in vzdump.vmid.
C34_BackupFlagHasCoordinator ==
  \A v \in Clients :
    (client[v].alloc = "live" /\ client[v].type = "CLIENT_QEMU" /\ client[v].backup)
      => \E k \in Clients :
           /\ client[k].alloc = "live"
           /\ client[k].type = "CLIENT_VZDUMP"
           /\ client[k].vzdump_vmid = client[v].qemu_vmid

\* C35: an error return handled for an open connection starts no escalation,
\* in whatever state: no pending kill is recorded (forced_cleanups changes
\* only if a failed write tears the connection down) and the connection is
\* not left Terminating.  Handled in STATE_EXPECT_STATUS_RESP it leaves the
\* connection Idle with nothing written, or, with term_check_queued set, runs
\* the termination check again, which writes a new status query.
C35_ErrorReturn ==
  \A c \in Clients : client[c].alloc = "live" =>
    \A W \in handle_qmp_return(World, c, "none", TRUE) :
      /\ Len(W.forced_cleanups) <= Len(forced_cleanups)
      /\ W.client[c].alloc = "live" => W.forced_cleanups = forced_cleanups
      /\ W.obs[c].escalations = obs[c].escalations
      /\ W.client[c].state # "STATE_TERMINATING"
      /\ client[c].state = "STATE_EXPECT_STATUS_RESP" =>
           IF client[c].term_check_queued THEN Requeried(W, c) ELSE IdleNoCommand(W, c)

\* A VM connection whose status query, sent for a SHUTDOWN event, was
\* answered with an error: it is Idle and was never escalated.
C35_Witness ==
  \E c \in Clients :
    /\ client[c].alloc = "live"
    /\ client[c].type = "CLIENT_QEMU"
    /\ client[c].state = "STATE_IDLE"
    /\ obs[c].shutdown
    /\ obs[c].inflight = 0
    /\ obs[c].escalations = 0
    /\ forced_cleanups = <<>>


\* The worlds in which a sweep runs: the one epoll_wait timed out in, and
\* those a handled connection leaves at the end of a loop turn.
SweepPoints ==
  {World} \cup UNION { handle_client(World, c) : c \in {d \in Clients : client[d].alloc = "live"} }

EntriesIn(W, c) ==
  Cardinality({i \in 1 .. Len(W.forced_cleanups) : W.forced_cleanups[i] = c})

\* The sweep has sent SIGKILL for connection c, which is still open.
Killed(c) == client[c].alloc = "live" /\ obs[c].sigkills > 0

\* C36: a sweep that sends SIGKILL for an open connection leaves it open,
\* launches no `qm cleanup` for it, and leaves it in STATE_TERMINATING with no
\* entry in forced_cleanups; handling data of such a connection neither tears
\* it down nor launches `qm cleanup`, and handling its end-of-file or read
\* error launches `qm cleanup`, once for the connection.
C36_ForcedKill ==
  /\ running =>
       \A T \in SweepPoints : \A W \in handle_forced_cleanup(T) : \A c \in Clients :
         (T.client[c].alloc = "live" /\ W.obs[c].sigkills > T.obs[c].sigkills)
           => /\ W.client[c].alloc = "live"
              /\ W.obs[c].launches = T.obs[c].launches
              /\ W.obs[c].qemu_teardowns = T.obs[c].qemu_teardowns
              /\ W.client[c].state = "STATE_TERMINATING"
              /\ EntriesIn(W, c) = 0
  /\ \A c \in Clients :
       /\ obs[c].launches <= 1
       /\ Killed(c) =>
            /\ obs[c].launches = 0
            /\ client[c].state = "STATE_TERMINATING"
            /\ Entries(c) = 0
            /\ \A W \in handle_client(WorldRead("data"), c) :
                 W.client[c].alloc = "live" /\ W.obs[c].launches = 0
            /\ \A r \in {"EOF", "error"} : \A W \in handle_client(WorldRead(r), c) :
                 W.client[c].alloc # "live" /\ W.obs[c].launches = 1


\* C37: whenever main calls epoll_wait, needs_cleanup is set exactly if
\* forced_cleanups is not empty: the wait has the timeout of 10 seconds if
\* the list holds an entry and no timeout if it holds none.
C37_WaitBoundedIffPending ==
  running =>
    /\ (needs_cleanup # 0) <=> (forced_cleanups # <<>>)
    /\ epoll_timeout = IF forced_cleanups # <<>> THEN 10000 ELSE -1

\* The daemon waits without timeout after a sweep has sent a forced kill and
\* removed the last entry.
C37_Witness ==
  /\ running
  /\ forced_cleanups = <<>>
  /\ epoll_timeout = -1
  /\ \E c \in Clients : obs[c].sigkills > 0 /\ obs[c].escalations > 0


\* C38: after every read and decoding of handle_client, buflen is less than
\* sizeof(client->buf): the next read is asked for at least one byte, so a
\* read that returns 0 is an end-of-file.
C38_BufferNeverFull ==
  /\ Len(decoder.buf) < BufSize
  /\ BufSize - Len(decoder.buf) >= 1

\* The reads have filled the buffer with whitespace and the first bytes of a
\* message, and the buffer was discarded: the closing brace of the message is
\* still to be read.
C38_Witness ==
  /\ decoder.buf = <<>>
  /\ decoder.wire = <<"}">>
  /\ Len(decoder.got) < Len(decoder.sent)

====
